---- MODULE Spec2Model ----
(***************************************************************************)
(* SH1107 128x64 OLED driver (src/sh1107_driver.py): the driver object, its *)
(* two frame buffers, the I2C bus it writes to, and its operations.        *)
(*                                                                         *)
(* Buffers are Python bytearrays, modelled as sequences of bytes 0..255:    *)
(* the byte Python calls buf[i] is At(buf, i), the sequence's element i+1. *)
(* The bus is the sequence of writeto() calls of the operation in          *)
(* progress, each with the bytes written and whether the bus accepted it   *)
(* (ok) or raised OSError.                                                 *)
(***************************************************************************)
EXTENDS Integers, Sequences, FiniteSets, TLC

VARIABLES
    pc,               \* "new": not constructed, "ready": constructed, "failed": __init__ raised
    rotate,           \* self.rotate
    buffer,           \* self.buffer          (LogicalBuffer)
    physical_buffer,  \* self.physical_buffer (PhysicalBuffer; absent = <<>> in portrait)
    bus,              \* writeto() calls of the last operation, in order
    result,           \* how the last operation ended: "ok" or the exception raised
    lastOp,           \* the last operation: [name, args]
    faults,           \* the bus's behaviour during the last operation (which calls raised)
    calls,            \* primitive-surface calls made by the last drawing operation
    glitched,         \* the bus has already raised OSError in some operation
    stale             \* the last operation was a show() that found, in physical_buffer,
                      \* a bit of an earlier frame that the frame it shows does not have

vars == <<pc, rotate, buffer, physical_buffer, bus, result, lastOp, faults, calls, glitched, stale>>

-----------------------------------------------------------------------------
(* Program constants *)

_SET_CONTRAST == 129
_SET_ENTIRE_ON == 164
_SET_NORM_INV == 166
_SET_DISP == 174
_SET_SCAN_DIR == 192
_SET_SEG_REMAP == 160
_SET_MUX_RATIO == 168
_SET_DISP_OFFSET == 211
_SET_DISP_START_LINE == 220
_SET_DISP_CLK_DIV == 213
_SET_PRECHARGE == 217
_SET_VCOM_DESEL == 219
_SET_PAGE_ADDR == 176
_SET_COL_ADDR_LOW == 0
_SET_COL_ADDR_HIGH == 16
_SET_MEM_ADDR_MODE == 32

CMD_CONTROL == 128
DATA_CONTROL == 64
chunk_size == 16
physical_width == 64
physical_height == 128
NUM_PAGES == 16
PAGE_BYTES == 64
SRC_PAGES == 8
SRC_COLS == 128
MAX_DST_Y == 127

-----------------------------------------------------------------------------
(* Bytes and bits *)

Pow2(n) == 2 ^ n

\* byte & (1 << bit)
BitSet(byte, bit) == (byte \div Pow2(bit)) % 2 = 1

\* byte | (1 << bit)
OrBit(byte, bit) == IF BitSet(byte, bit) THEN byte ELSE byte + Pow2(bit)

\* one bit of a | b
OrOfBit(a, b, bit) == IF BitSet(a, bit) \/ BitSet(b, bit) THEN Pow2(bit) ELSE 0

\* a | b on bytes
Or(a, b) ==
    OrOfBit(a, b, 0) + OrOfBit(a, b, 1) + OrOfBit(a, b, 2) + OrOfBit(a, b, 3)
    + OrOfBit(a, b, 4) + OrOfBit(a, b, 5) + OrOfBit(a, b, 6) + OrOfBit(a, b, 7)

Min(a, b) == IF a < b THEN a ELSE b

\* bytearray(n)
bytearray(n) == SubSeq([i \in 1 .. n |-> 0], 1, n)

\* buf[i]
At(buf, i) == buf[i + 1]

\* buf[a:b] for 0 <= a (Python slicing clamps b to the length)
Slice(buf, a, b) == SubSeq(buf, a + 1, Min(b, Len(buf)))

-----------------------------------------------------------------------------
(* Geometry chosen by __init__ *)

width(rot) == IF rot THEN 128 ELSE 64
height(rot) == IF rot THEN 64 ELSE 128
pages(rot) == height(rot) \div 8

-----------------------------------------------------------------------------
(* Bus transactions *)

\* write_cmd: one writeto of [0x80, cmd]
write_cmd(cmd) == <<CMD_CONTROL, cmd>>

\* range(0, len(data), chunk_size) has this many elements
NumChunks(n) == (n + chunk_size - 1) \div chunk_size

\* A write_data that sends only whole chunks: range(0, len(data) - len(data) % 16, 16)
write_data_whole_chunks(data) ==
    [k \in 1 .. Len(data) \div chunk_size |->
        LET i == (k - 1) * chunk_size
        IN <<DATA_CONTROL>> \o Slice(data, i, i + chunk_size)]

\* write_data: the writeto payloads, one per chunk, in order
write_data(data) ==
    [k \in 1 .. NumChunks(Len(data)) |->
        LET i == (k - 1) * chunk_size
        IN <<DATA_CONTROL>> \o Slice(data, i, i + chunk_size)]

\* _SET_COL_ADDR_LOW | 0 and _SET_COL_ADDR_HIGH | 0
ColLowCmd == Or(_SET_COL_ADDR_LOW, 0)
ColHighCmd == Or(_SET_COL_ADDR_HIGH, 0)

\* the four statements of show()'s try body (and of its except body) for one page
PageGroup(buf, page) ==
    <<write_cmd(Or(_SET_PAGE_ADDR, page)), write_cmd(ColLowCmd), write_cmd(ColHighCmd)>>
    \o write_data(Slice(buf, page * PAGE_BYTES, page * PAGE_BYTES + PAGE_BYTES))

\* Issue the transactions txs in order on a bus whose k-th call raises OSError
\* (k = 0: none raises): the calls made, the failing one last.
Attempt(txs, k) ==
    IF k = 0
    THEN [i \in 1 .. Len(txs) |-> [bytes |-> txs[i], ok |-> TRUE]]
    ELSE [i \in 1 .. Min(k, Len(txs)) |-> [bytes |-> txs[i], ok |-> i # k]]

\* A show() whose except body resumes at the transaction that failed instead
\* of sending the page's group again from its first command
PageTraceResuming(buf, page, f) ==
    LET g == PageGroup(buf, page)
    IN IF f[1] = 0 THEN Attempt(g, 0)
       ELSE Attempt(g, f[1]) \o SubSeq(Attempt(g, 0), f[1], Len(g))

\* One iteration of show()'s page loop on a bus that raises at call f[1] of the
\* try body and at call f[2] of the except body (0: does not raise): the calls made.
PageTrace(buf, page, f) ==
    LET g == PageGroup(buf, page)
    IN IF f[1] = 0 THEN Attempt(g, 0) ELSE Attempt(g, f[1]) \o Attempt(g, f[2])

\* A show() whose except body swallows the error of its own writes
RaisesNever(f) == FALSE

\* the iteration raises out of the except body
Raises(f) == f[1] # 0 /\ f[2] # 0

RECURSIVE Flatten(_, _)
Flatten(traces, upto) ==
    IF upto = 0 THEN <<>> ELSE Flatten(traces, upto - 1) \o traces[upto]

\* the page loop of show(): pages in ascending order, until one raises
ShowPages(buf, plan) ==
    LET raising == {page \in 0 .. NUM_PAGES - 1 : Raises(plan[page])}
        last == IF raising = {} THEN NUM_PAGES - 1
                ELSE CHOOSE page \in raising : \A q \in raising : page <= q
        traces == [i \in 1 .. last + 1 |-> PageTrace(buf, i - 1, plan[i - 1])]
    IN [bus |-> Flatten(traces, last + 1),
        result |-> IF raising = {} THEN "ok" ELSE "OSError"]

-----------------------------------------------------------------------------
(* Layout rotation *)

\* The loops below carry the buffer from one iteration to the next; Evaluated(pb)
\* is TRUE and only makes the buffer a value before the next iteration starts.
Evaluated(pb) == Len(pb) >= 0

\* A rotation that turns the other way: dst_x = 63 - src_y, dst_y = src_x
RECURSIVE RotateBitsClockwise(_, _, _, _, _)
RotateBitsClockwise(pb, src_byte, src_page, src_col, bit) ==
    IF bit = 8 \/ ~Evaluated(pb) THEN pb
    ELSE IF BitSet(src_byte, bit)
    THEN LET src_y == src_page * 8 + bit
             src_x == src_col
             dst_x == physical_width - 1 - src_y
             dst_y == src_x
             dst_page == dst_y \div 8
             dst_bit == dst_y % 8
         IN RotateBitsClockwise(
                [pb EXCEPT ![dst_page * physical_width + dst_x + 1] = OrBit(@, dst_bit)],
                src_byte, src_page, src_col, bit + 1)
    ELSE RotateBitsClockwise(pb, src_byte, src_page, src_col, bit + 1)

\* the bit loop of _rotate_buffer for one source byte
RECURSIVE RotateBits(_, _, _, _, _)
RotateBits(pb, src_byte, src_page, src_col, bit) ==
    IF bit = 8 \/ ~Evaluated(pb) THEN pb
    ELSE IF BitSet(src_byte, bit)
    THEN LET src_y == src_page * 8 + bit
             src_x == src_col
             dst_x == src_y
             dst_y == MAX_DST_Y - src_x
             dst_page == dst_y \div 8
             dst_bit == dst_y % 8
         IN RotateBits([pb EXCEPT ![dst_page * physical_width + dst_x + 1] = OrBit(@, dst_bit)],
                       src_byte, src_page, src_col, bit + 1)
    ELSE RotateBits(pb, src_byte, src_page, src_col, bit + 1)

\* range(128), and the columns of a source page whose byte passes "if src_byte"
SrcCols == SubSeq([c \in 1 .. SRC_COLS |-> c - 1], 1, SRC_COLS)
NonZeroCols(buf, src_page) ==
    SelectSeq(SrcCols, LAMBDA c : buf[src_page * SRC_COLS + c + 1] # 0)

\* the src_col loop, over the columns that pass "if src_byte"
RECURSIVE RotateCols(_, _, _, _, _)
RotateCols(pb, buf, src_page, cols, k) ==
    IF k > Len(cols) \/ ~Evaluated(pb) THEN pb
    ELSE LET src_col == cols[k]
             src_byte == At(buf, src_page * SRC_COLS + src_col)
         IN RotateCols(RotateBits(pb, src_byte, src_page, src_col, 0), buf, src_page, cols, k + 1)

RECURSIVE RotatePages(_, _, _)
RotatePages(pb, buf, src_page) ==
    IF src_page = SRC_PAGES \/ ~Evaluated(pb) THEN pb
    ELSE RotatePages(RotateCols(pb, buf, src_page, NonZeroCols(buf, src_page), 1), buf, src_page + 1)

\* A _rotate_buffer without its clearing loop
ClearPhysicalSkipped(pb) == pb

\* the clearing loop of _rotate_buffer
ClearPhysical(pb) == SubSeq([i \in 1 .. Len(pb) |-> 0], 1, Len(pb))

\* _rotate_buffer: the new physical_buffer
_rotate_buffer(pb, buf) == RotatePages(ClearPhysical(pb), buf, 0)

-----------------------------------------------------------------------------
(* The primitive surface (framebuf.FrameBuffer, MONO_VLSB): the driver      *)
(* inherits pixel, hline, line and fill from it.  Byte (y div 8) * width + x *)
(* holds pixel (x, y) in bit y mod 8; coordinates outside the surface are   *)
(* ignored.                                                                *)

\* byte & ~(1 << bit)
ClearBit(byte, bit) == IF BitSet(byte, bit) THEN byte - Pow2(bit) ELSE byte

InSurface(rot, x, y) == 0 <= x /\ x < width(rot) /\ 0 <= y /\ y < height(rot)

\* fill(c): every byte all-zero or all-one
fill(buf, c) == SubSeq([i \in 1 .. Len(buf) |-> IF c = 0 THEN 0 ELSE 255], 1, Len(buf))

\* pixel(x, y, c)
pixel(buf, rot, x, y, c) ==
    IF ~InSurface(rot, x, y) THEN buf
    ELSE [buf EXCEPT ![(y \div 8) * width(rot) + x + 1] =
              IF c # 0 THEN OrBit(@, y % 8) ELSE ClearBit(@, y % 8)]

\* hline(x, y, w, c): the pixels (x, y) .. (x + w - 1, y)
RECURSIVE hline(_, _, _, _, _, _)
hline(buf, rot, x, y, w, c) ==
    IF w <= 0 \/ ~Evaluated(buf) THEN buf
    ELSE hline(pixel(buf, rot, x, y, c), rot, x + 1, y, w - 1, c)

Abs(n) == IF n < 0 THEN -n ELSE n
Sign(n) == IF n > 0 THEN 1 ELSE -1

\* line(x1, y1, x2, y2, c): the surface's integer line walk along the longer
\* axis (steep: axes swapped), the end point (x2, y2) drawn last
RECURSIVE LineWalk(_, _, _, _, _, _, _, _, _, _, _, _)
LineWalk(buf, rot, x1, y1, dx, dy, sx, sy, steep, e, i, c) ==
    IF i >= dx \/ ~Evaluated(buf) THEN buf
    ELSE LET drawn == IF steep THEN pixel(buf, rot, y1, x1, c) ELSE pixel(buf, rot, x1, y1, c)
             up == IF e >= 0 THEN (e \div (2 * dx)) + 1 ELSE 0
         IN LineWalk(drawn, rot, x1 + sx, y1 + up * sy, dx, dy, sx, sy, steep,
                     e - up * 2 * dx + 2 * dy, i + 1, c)

line(buf, rot, x1, y1, x2, y2, c) ==
    LET dx == Abs(x2 - x1)
        dy == Abs(y2 - y1)
        sx == Sign(x2 - x1)
        sy == Sign(y2 - y1)
        walked == IF dy > dx
                  THEN LineWalk(buf, rot, y1, x1, dy, dx, sy, sx, TRUE, 2 * dx - dy, 0, c)
                  ELSE LineWalk(buf, rot, x1, y1, dx, dy, sx, sy, FALSE, 2 * dy - dx, 0, c)
    IN pixel(walked, rot, x2, y2, c)

\* A call the driver makes on the surface, and its effect on the buffer
PixelCall(x, y, c) == [op |-> "pixel", args |-> <<x, y, c>>]
HLineCall(x, y, w, c) == [op |-> "hline", args |-> <<x, y, w, c>>]
LineCall(x1, y1, x2, y2, c) == [op |-> "line", args |-> <<x1, y1, x2, y2, c>>]

ApplyCall(buf, rot, call) ==
    LET a == call.args
    IN CASE call.op = "pixel" -> pixel(buf, rot, a[1], a[2], a[3])
         [] call.op = "hline" -> hline(buf, rot, a[1], a[2], a[3], a[4])
         [] call.op = "line" -> line(buf, rot, a[1], a[2], a[3], a[4], a[5])

\* the calls cs[k], cs[k+1], ... applied in order
RECURSIVE Draw(_, _, _, _)
Draw(buf, rot, cs, k) ==
    IF k > Len(cs) \/ ~Evaluated(buf) THEN buf
    ELSE Draw(ApplyCall(buf, rot, cs[k]), rot, cs, k + 1)

\* the pixels a call addresses, before the surface clips them
CallPixels(call) ==
    LET a == call.args
    IN CASE call.op = "pixel" -> {<<a[1], a[2]>>}
         [] call.op = "hline" -> {<<a[1] + i, a[2]>> : i \in 0 .. a[3] - 1}
         [] call.op = "line" -> {}

Covered(cs) == UNION {CallPixels(cs[k]) : k \in 1 .. Len(cs)}

-----------------------------------------------------------------------------
(* Shape rasterizers: the surface calls each makes, in order, and how it ends *)

Returned(cs) == [calls |-> cs, result |-> "ok"]
Raised(cs, exc) == [calls |-> cs, result |-> exc]

\* A filled circle whose spans are one pixel short: hline(..., 2 * x, c)
CircleSpansNarrow(x0, y0, x, y, c) ==
    <<HLineCall(x0 - x, y0 + y, 2 * x, c)>>
    \o (IF y # 0 THEN <<HLineCall(x0 - x, y0 - y, 2 * x, c)>> ELSE <<>>)

\* the hline calls of one iteration of the fill loop
CircleSpans(x0, y0, x, y, c) ==
    <<HLineCall(x0 - x, y0 + y, 2 * x + 1, c)>>
    \o (IF y # 0 THEN <<HLineCall(x0 - x, y0 - y, 2 * x + 1, c)>> ELSE <<>>)

\* circle(..., f=True): the loop "while y <= r"
RECURSIVE CircleFill(_, _, _, _, _, _, _, _)
CircleFill(x0, y0, r, c, x, y, err, acc) ==
    IF ~(y <= r) THEN acc
    ELSE LET err1 == err + 1 + 2 * y
             step == 2 * err1 > 2 * x + 1
             x1 == IF step THEN x - 1 ELSE x
             err2 == IF step THEN err1 + 1 - 2 * x1 ELSE err1
         IN CircleFill(x0, y0, r, c, x1, y + 1, err2, acc \o CircleSpans(x0, y0, x, y, c))

\* the eight pixel calls of one iteration of the outline loop
CirclePoints(x0, y0, x, y, c) ==
    <<PixelCall(x0 + x, y0 + y, c), PixelCall(x0 + y, y0 + x, c),
      PixelCall(x0 - y, y0 + x, c), PixelCall(x0 - x, y0 + y, c),
      PixelCall(x0 - x, y0 - y, c), PixelCall(x0 - y, y0 - x, c),
      PixelCall(x0 + y, y0 - x, c), PixelCall(x0 + x, y0 - y, c)>>

\* circle(..., f=False): the loop "while x >= y"
RECURSIVE CircleOutline(_, _, _, _, _, _, _)
CircleOutline(x0, y0, c, x, y, err, acc) ==
    IF ~(x >= y) THEN acc
    ELSE LET up == err <= 0
             y1 == IF up THEN y + 1 ELSE y
             err1 == IF up THEN err + 2 * y1 + 1 ELSE err
             inward == err1 > 0
             x1 == IF inward THEN x - 1 ELSE x
             err2 == IF inward THEN err1 - (2 * x1 + 1) ELSE err1
         IN CircleOutline(x0, y0, c, x1, y1, err2, acc \o CirclePoints(x0, y0, x, y, c))

circle(x0, y0, r, c, f) ==
    Returned(IF f THEN CircleFill(x0, y0, r, c, r, 0, 0, <<>>)
             ELSE CircleOutline(x0, y0, c, r, 0, 0, <<>>))

\* the largest k with k * k <= n
ISqrt(n) == CHOOSE k \in 0 .. n : k * k <= n /\ (k + 1) * (k + 1) > n

\* int(a * ((1 - (y*y)/(b*b)) ** 0.5)) for b # 0 and |y| <= |b|, in exact
\* arithmetic: int() truncates towards zero
HalfWidth(a, b, y) ==
    LET h == ISqrt((a * a * (b * b - y * y)) \div (b * b))
    IN IF a < 0 THEN -h ELSE h

\* ellipse(..., f=True): one hline per y in range(-b, b + 1); the first
\* iteration divides by b*b
EllipseFill(x0, y0, a, b, c) ==
    IF b < 0 THEN Returned(<<>>)
    ELSE IF b * b = 0 THEN Raised(<<>>, "ZeroDivisionError")
    ELSE Returned([i \in 1 .. 2 * b + 1 |->
             LET y == i - b - 1
                 x == HalfWidth(a, b, y)
             IN HLineCall(x0 - x, y0 + y, 2 * x + 1, c)])

\* the four pixel calls of one iteration of either outline loop
EllipsePoints(x0, y0, x, y, c) ==
    <<PixelCall(x0 + x, y0 + y, c), PixelCall(x0 - x, y0 + y, c),
      PixelCall(x0 + x, y0 - y, c), PixelCall(x0 - x, y0 - y, c)>>

\* Region 2, "while y >= 0"; d4 is four times the decision variable d, which
\* starts at a multiple of 1/4
RECURSIVE EllipseRegion2(_, _, _, _, _, _, _, _, _, _, _)
EllipseRegion2(x0, y0, a2, b2, c, x, y, dx, dy, d4, acc) ==
    IF ~(y >= 0) THEN acc
    ELSE LET pts == acc \o EllipsePoints(x0, y0, x, y, c)
         IN IF d4 > 0
            THEN EllipseRegion2(x0, y0, a2, b2, c, x, y - 1, dx, dy - 2 * a2,
                                d4 + 4 * (a2 - (dy - 2 * a2)), pts)
            ELSE EllipseRegion2(x0, y0, a2, b2, c, x + 1, y - 1, dx + 2 * b2, dy - 2 * a2,
                                d4 + 4 * ((dx + 2 * b2) - (dy - 2 * a2) + a2), pts)

\* Region 1, "while dx < dy", then the recomputed d and region 2
RECURSIVE EllipseRegion1(_, _, _, _, _, _, _, _, _, _, _)
EllipseRegion1(x0, y0, a2, b2, c, x, y, dx, dy, d, acc) ==
    IF ~(dx < dy)
    THEN EllipseRegion2(x0, y0, a2, b2, c, x, y, dx, dy,
                        b2 * (2 * x + 1) * (2 * x + 1) + 4 * a2 * (y - 1) * (y - 1) - 4 * a2 * b2,
                        acc)
    ELSE LET pts == acc \o EllipsePoints(x0, y0, x, y, c)
         IN IF d < 0
            THEN EllipseRegion1(x0, y0, a2, b2, c, x + 1, y, dx + 2 * b2, dy,
                                d + (dx + 2 * b2) + b2, pts)
            ELSE EllipseRegion1(x0, y0, a2, b2, c, x + 1, y - 1, dx + 2 * b2, dy - 2 * a2,
                                d + (dx + 2 * b2) - (dy - 2 * a2) + b2, pts)

EllipseOutline(x0, y0, a, b, c) ==
    LET a2 == a * a
        b2 == b * b
    IN Returned(EllipseRegion1(x0, y0, a2, b2, c, 0, b, 0, 2 * a2 * b,
                               b2 - a2 * b + (a2 \div 4), <<>>))

ellipse(x0, y0, a, b, c, f) ==
    IF f THEN EllipseFill(x0, y0, a, b, c) ELSE EllipseOutline(x0, y0, a, b, c)

\* "if ya > yb: swap the two vertices", on vertices <<x, y>>
Lower(va, vb) == IF va[2] > vb[2] THEN vb ELSE va
Upper(va, vb) == IF va[2] > vb[2] THEN va ELSE vb

\* x on the edge from v to w at scanline y; v's x when the edge is level
EdgeX(v, w, y) ==
    IF w[2] # v[2] THEN v[1] + ((w[1] - v[1]) * (y - v[2])) \div (w[2] - v[2]) ELSE v[1]

\* the hline call of scanline y of the sorted triangle v0, v1, v2
ScanLine(v0, v1, v2, y, c) ==
    LET xa == IF y <= v1[2] THEN EdgeX(v0, v1, y) ELSE EdgeX(v1, v2, y)
        xb == EdgeX(v0, v2, y)
        lo == IF xa > xb THEN xb ELSE xa
        hi == IF xa > xb THEN xa ELSE xb
    IN HLineCall(lo, y, hi - lo + 1, c)

\* triangle(..., f=True)
TriangleFill(x0, y0, x1, y1, x2, y2, c) ==
    LET a0 == Lower(<<x0, y0>>, <<x1, y1>>)
        a1 == Upper(<<x0, y0>>, <<x1, y1>>)
        b1 == Lower(a1, <<x2, y2>>)
        v2 == Upper(a1, <<x2, y2>>)
        v0 == Lower(a0, b1)
        v1 == Upper(a0, b1)
    IN Returned([i \in 1 .. v2[2] - v0[2] + 1 |-> ScanLine(v0, v1, v2, v0[2] + i - 1, c)])

\* triangle(..., f=False)
TriangleOutline(x0, y0, x1, y1, x2, y2, c) ==
    Returned(<<LineCall(x0, y0, x1, y1, c), LineCall(x1, y1, x2, y2, c), LineCall(x2, y2, x0, y0, c)>>)

triangle(x0, y0, x1, y1, x2, y2, c, f) ==
    IF f THEN TriangleFill(x0, y0, x1, y1, x2, y2, c)
    ELSE TriangleOutline(x0, y0, x1, y1, x2, y2, c)

-----------------------------------------------------------------------------
(* show() as a function of the object and of the bus's behaviour *)

\* A show() that always transfers the logical buffer
show_logical(rot, buf, pb, plan) ==
    LET pb2 == IF rot THEN _rotate_buffer(pb, buf) ELSE pb
        sent == ShowPages(buf, plan)
    IN [physical_buffer |-> pb2, bus |-> sent.bus, result |-> sent.result]

\* show(): the new physical_buffer, the calls made on the bus, how it ended
show(rot, buf, pb, plan) ==
    LET pb2 == IF rot THEN _rotate_buffer(pb, buf) ELSE pb
        buffer_to_send == IF rot THEN pb2 ELSE buf
        sent == ShowPages(buffer_to_send, plan)
    IN [physical_buffer |-> pb2, bus |-> sent.bus, result |-> sent.result]

\* A command list that ends without switching the display on
InitCommandsNoDisplayOn ==
    <<Or(_SET_DISP, 0),
      _SET_DISP_START_LINE, 0,
      _SET_CONTRAST, 47,
      _SET_MEM_ADDR_MODE,
      Or(_SET_SEG_REMAP, 0),
      Or(_SET_SCAN_DIR, 0),
      _SET_MUX_RATIO, 127,
      _SET_DISP_OFFSET, 96,
      _SET_DISP_CLK_DIV, 81,
      _SET_PRECHARGE, 34,
      _SET_VCOM_DESEL, 53,
      _SET_ENTIRE_ON,
      _SET_NORM_INV,
      Or(_SET_DISP, 0)>>

\* the command bytes init_display iterates over
InitCommands ==
    <<Or(_SET_DISP, 0),
      _SET_DISP_START_LINE, 0,
      _SET_CONTRAST, 47,
      _SET_MEM_ADDR_MODE,
      Or(_SET_SEG_REMAP, 0),
      Or(_SET_SCAN_DIR, 0),
      _SET_MUX_RATIO, 127,
      _SET_DISP_OFFSET, 96,
      _SET_DISP_CLK_DIV, 81,
      _SET_PRECHARGE, 34,
      _SET_VCOM_DESEL, 53,
      _SET_ENTIRE_ON,
      _SET_NORM_INV,
      Or(_SET_DISP, 1)>>

\* An init_display that sends a command the bus refused once more and goes on
init_display_retrying(rot, buf, pb, cmd, plan) ==
    LET cmds == [i \in 1 .. Len(InitCommands) |-> write_cmd(InitCommands[i])]
        cleared == fill(buf, 0)
        s == show(rot, cleared, pb, plan)
        sent == IF cmd = 0 THEN Attempt(cmds, 0)
                ELSE Attempt(cmds, cmd) \o SubSeq(Attempt(cmds, 0), cmd, Len(cmds))
    IN [buffer |-> cleared, physical_buffer |-> s.physical_buffer,
        bus |-> sent \o s.bus, result |-> s.result]

\* init_display on a bus whose cmd-th command write raises (0: none) and whose
\* page transfers then follow plan
init_display(rot, buf, pb, cmd, plan) ==
    LET cmds == [i \in 1 .. Len(InitCommands) |-> write_cmd(InitCommands[i])]
    IN IF cmd # 0
       THEN [buffer |-> buf, physical_buffer |-> pb, bus |-> Attempt(cmds, cmd), result |-> "OSError"]
       ELSE LET cleared == fill(buf, 0)
                s == show(rot, cleared, pb, plan)
            IN [buffer |-> cleared, physical_buffer |-> s.physical_buffer,
                bus |-> Attempt(cmds, 0) \o s.bus, result |-> s.result]

-----------------------------------------------------------------------------
(* Bus behaviours: for each page, which call of the first attempt raises and *)
(* which call of the retry raises (0: none).                               *)

Pages == 0 .. NUM_PAGES - 1
GroupLen == 3 + NumChunks(PAGE_BYTES)
NoFaults == [p \in Pages |-> <<0, 0>>]

\* page p alone is disturbed
OnePage(p, f1, f2) == [q \in Pages |-> IF q = p THEN <<f1, f2>> ELSE <<0, 0>>]

\* every page before p is disturbed once at call f0, page p at f1 and f2
UpTo(p, f0, f1, f2) ==
    [q \in Pages |-> IF q < p THEN <<f0, 0>> ELSE IF q = p THEN <<f1, f2>> ELSE <<0, 0>>]

\* every page is disturbed once at call f0
EveryPage(f0) == [q \in Pages |-> <<f0, 0>>]

HasFault(plan) == \E p \in Pages : plan[p][1] # 0

Plans ==
    {NoFaults}
    \cup {OnePage(p, f1, f2) : p \in Pages, f1 \in 1 .. GroupLen, f2 \in 0 .. GroupLen}
    \cup {EveryPage(f0) : f0 \in 1 .. GroupLen}
    \cup {UpTo(p, f0, GroupLen, 1) : p \in Pages, f0 \in {1, GroupLen}}

-----------------------------------------------------------------------------

-----------------------------------------------------------------------------
(* Operations *)

NoOp == [name |-> "none", args |-> <<>>]

\* some bit set in the buffer old is clear in the buffer new
Outlived(old, new) ==
    \E i \in 1 .. Len(old) :
        /\ old[i] # 0
        /\ old[i] # new[i]
        /\ \E bit \in 0 .. 7 : BitSet(old[i], bit) /\ ~BitSet(new[i], bit)
Quiet == [cmd |-> 0, pages |-> NoFaults]
Flag(b) == IF b THEN 1 ELSE 0

Init ==
    /\ pc = "new"
    /\ rotate = FALSE
    /\ buffer = <<>>
    /\ physical_buffer = <<>>
    /\ bus = <<>>
    /\ result = "none"
    /\ lastOp = NoOp
    /\ faults = Quiet
    /\ calls = <<>>
    /\ glitched = FALSE
    /\ stale = FALSE

\* SH1107.__init__(i2c, rotate=rot) on a bus whose cmd-th call raises (0: none)
\* and whose page transfers follow plan.  When __init__ raises there is no object.
Construct(rot, cmd, plan) ==
    /\ pc = "new"
    /\ LET buf == bytearray(pages(rot) * width(rot))
           pb == IF rot THEN bytearray(NUM_PAGES * PAGE_BYTES) ELSE <<>>
           r == init_display(rot, buf, pb, cmd, plan)
       IN /\ pc' = IF r.result = "ok" THEN "ready" ELSE "failed"
          /\ buffer' = r.buffer
          /\ physical_buffer' = r.physical_buffer
          /\ bus' = r.bus
          /\ result' = r.result
    /\ rotate' = rot
    /\ lastOp' = [name |-> "__init__", args |-> <<Flag(rot)>>]
    /\ faults' = [cmd |-> cmd, pages |-> IF cmd # 0 THEN NoFaults ELSE plan]
    /\ calls' = <<>>
    /\ glitched' = (cmd # 0 \/ HasFault(plan))
    /\ stale' = FALSE

\* SH1107.show() on a bus whose page transfers follow plan
Show(plan) ==
    /\ pc = "ready"
    /\ LET r == show(rotate, buffer, physical_buffer, plan)
       IN /\ physical_buffer' = r.physical_buffer
          /\ bus' = r.bus
          /\ result' = r.result
          /\ stale' = Outlived(physical_buffer, r.physical_buffer)
    /\ lastOp' = [name |-> "show", args |-> <<>>]
    /\ faults' = [cmd |-> 0, pages |-> plan]
    /\ calls' = <<>>
    /\ glitched' = (glitched \/ HasFault(plan))
    /\ UNCHANGED <<pc, rotate, buffer>>

\* A drawing operation: the surface calls it made are applied to the buffer,
\* also those made before it raised
Drawing(name, args, r) ==
    /\ pc = "ready"
    /\ buffer' = Draw(buffer, rotate, r.calls, 1)
    /\ calls' = r.calls
    /\ result' = r.result
    /\ lastOp' = [name |-> name, args |-> args]
    /\ bus' = <<>>
    /\ faults' = Quiet
    /\ stale' = FALSE
    /\ UNCHANGED <<pc, rotate, physical_buffer, glitched>>

\* inherited pixel(x, y, c)
Pixel(x, y, c) == Drawing("pixel", <<x, y, c>>, Returned(<<PixelCall(x, y, c)>>))

\* inherited fill(c)
Fill(c) ==
    /\ pc = "ready"
    /\ buffer' = fill(buffer, c)
    /\ calls' = <<>>
    /\ result' = "ok"
    /\ lastOp' = [name |-> "fill", args |-> <<c>>]
    /\ bus' = <<>>
    /\ faults' = Quiet
    /\ stale' = FALSE
    /\ UNCHANGED <<pc, rotate, physical_buffer, glitched>>

Circle(x0, y0, r, c, f) ==
    Drawing("circle", <<x0, y0, r, c, Flag(f)>>, circle(x0, y0, r, c, f))

Ellipse(x0, y0, a, b, c, f) ==
    Drawing("ellipse", <<x0, y0, a, b, c, Flag(f)>>, ellipse(x0, y0, a, b, c, f))

Triangle(x0, y0, x1, y1, x2, y2, c, f) ==
    Drawing("triangle", <<x0, y0, x1, y1, x2, y2, c, Flag(f)>>,
            triangle(x0, y0, x1, y1, x2, y2, c, f))

-----------------------------------------------------------------------------
(* Spec: the life of a driver.  Pixels of a few places are set and cleared, *)
(* a disk is drawn, the buffer is cleared, and frames are shown on a bus    *)
(* that is quiet, disturbed once, or disturbed twice on the same page.      *)

Spots == {<<0, 0>>, <<127, 0>>, <<0, 63>>}
SomePlans == {NoFaults, OnePage(1, 5, 0), OnePage(2, 4, 6)}

DoConstruct ==
    \E rot \in BOOLEAN :
        \/ \E plan \in SomePlans : Construct(rot, 0, plan)
        \/ Construct(rot, Len(InitCommands), NoFaults)

DoShow == \E plan \in SomePlans : Show(plan)

DoPixel == \E xy \in Spots, c \in {0, 1} : Pixel(xy[1], xy[2], c)

DoFill == Fill(0)

DoCircle == Circle(10, 10, 3, 1, TRUE)

Next ==
    \/ DoConstruct
    \/ DoShow
    \/ DoPixel
    \/ DoFill
    \/ DoCircle

Spec == Init /\ [][Next]_vars

-----------------------------------------------------------------------------
(* SpecBus: one frame on a disturbed bus.  The driver is constructed, at    *)
(* most one thing is drawn, and one frame is shown; the bus raises during   *)
(* at most one of the operations, in any of the ways of Plans.             *)

BusConstruct ==
    \E rot \in BOOLEAN :
        \/ \E cmd \in 1 .. Len(InitCommands) : Construct(rot, cmd, NoFaults)
        \/ \E plan \in Plans : Construct(rot, 0, plan)

BusDraw ==
    /\ lastOp.name = "__init__"
    /\ \/ \E xy \in Spots : Pixel(xy[1], xy[2], 1)
       \/ Circle(10, 10, 3, 1, TRUE)

BusShow ==
    /\ pc = "ready"
    /\ lastOp.name # "show"
    /\ \E plan \in (IF glitched THEN {NoFaults} ELSE Plans) : Show(plan)

NextBus ==
    \/ BusConstruct
    \/ BusDraw
    \/ BusShow

SpecBus == Init /\ [][NextBus]_vars

-----------------------------------------------------------------------------
(* SpecShapes: one shape on the blank buffer of a freshly constructed       *)
(* driver, for every choice of arguments within the bounds.                *)

MaxRadius == 8
Radii == -1 .. MaxRadius
Centres(rot) ==
    {<<0, 0>>, <<MaxRadius + 1, MaxRadius + 1>>, <<width(rot) - 1, height(rot) - 1>>,
     <<width(rot) - 1, 0>>, <<-1, height(rot)>>}
Corner == {-1, 0, 2, 4}

ShapesConstruct == \E rot \in BOOLEAN : Construct(rot, 0, NoFaults)

Blank == pc = "ready" /\ lastOp.name = "__init__"

ShapesCircle ==
    /\ Blank
    /\ \E ctr \in Centres(rotate), r \in Radii, f \in BOOLEAN : Circle(ctr[1], ctr[2], r, 1, f)

ShapesEllipse ==
    /\ Blank
    /\ \E ctr \in Centres(rotate), a \in Radii, b \in Radii, f \in BOOLEAN :
          Ellipse(ctr[1], ctr[2], a, b, 1, f)

ShapesTriangle ==
    /\ Blank
    /\ \E x0 \in Corner, y0 \in Corner, x1 \in Corner, y1 \in Corner,
          x2 \in Corner, y2 \in Corner, f \in BOOLEAN :
          Triangle(x0, y0, x1, y1, x2, y2, 1, f)

NextShapes ==
    \/ ShapesConstruct
    \/ ShapesCircle
    \/ ShapesEllipse
    \/ ShapesTriangle

SpecShapes == Init /\ [][NextShapes]_vars

-----------------------------------------------------------------------------
(* SpecChunks: write_data called directly, on payloads of every length up  *)
(* to MaxPayload, on a bus that is quiet or refuses the first call.        *)

MaxPayload == 65
Seeds == {1, 200}

\* n bytes, none of them zero, no two neighbours alike
Payload(n, seed) == SubSeq([i \in 1 .. n |-> 1 + ((seed + 7 * i) % 255)], 1, n)

\* SH1107.write_data(data) on a bus whose f-th call raises (0: none)
WriteData(data, f) ==
    /\ pc = "ready"
    /\ LET txs == write_data(data)
           raised == f # 0 /\ f <= Len(txs)
       IN /\ bus' = Attempt(txs, IF raised THEN f ELSE 0)
          /\ result' = IF raised THEN "OSError" ELSE "ok"
          /\ faults' = [cmd |-> IF raised THEN f ELSE 0, pages |-> NoFaults]
          /\ glitched' = (glitched \/ raised)
    /\ lastOp' = [name |-> "write_data", args |-> <<data>>]
    /\ calls' = <<>>
    /\ stale' = FALSE
    /\ UNCHANGED <<pc, rotate, buffer, physical_buffer>>

ChunksConstruct == \E rot \in BOOLEAN : Construct(rot, 0, NoFaults)

ChunksWrite ==
    /\ pc = "ready"
    /\ \E n \in 0 .. MaxPayload, seed \in Seeds, f \in {0, 1} : WriteData(Payload(n, seed), f)

NextChunks ==
    \/ ChunksConstruct
    \/ ChunksWrite

SpecChunks == Init /\ [][NextChunks]_vars

-----------------------------------------------------------------------------
(* The claims, stated over the recorded bus calls and the two buffers.     *)
(* Byte values are written as the claims give them: 0x80 = 128, 0x40 = 64, *)
(* 0xB0 = 176, 0x10 = 16.                                                  *)

\* a bus call that was accepted, and one that raised OSError
Sent(b) == [bytes |-> b, ok |-> TRUE]
Failed(b) == [bytes |-> b, ok |-> FALSE]

\* the buffer a frame is transferred from
ActiveBuffer == IF rotate THEN physical_buffer ELSE buffer

\* The complete group of a page: command 0xB0|page, command 0x00, command 0x10,
\* then the page's 64 bytes from column 0, written 16 at a time after 0x40
ClaimedGroup(buf, page) ==
    <<<<128, 176 + page>>, <<128, 0>>, <<128, 16>>>>
    \o [k \in 1 .. 4 |-> <<64>> \o SubSeq(buf, 64 * page + 16 * (k - 1) + 1, 64 * page + 16 * k)]

\* the number of bus calls of the pages before page p, when every retry succeeds:
\* 7 for a page sent once, f + 7 for a page whose f-th call failed
RECURSIVE CallsBefore(_, _)
CallsBefore(plan, p) ==
    IF p = 0 THEN 0 ELSE CallsBefore(plan, p - 1) + plan[p - 1][1] + 7

\* bus calls i + 1 .. i + 7 are the complete group of page p, all accepted
GroupSentAt(i, p) ==
    LET g == ClaimedGroup(ActiveBuffer, p)
    IN \A k \in 1 .. 7 : bus[i + k] = Sent(g[k])

\* bus calls i + 1 .. i + f are the first f calls of the group of page p, the
\* last of them refused
GroupCutAt(i, p, f) ==
    LET g == ClaimedGroup(ActiveBuffer, p)
    IN \A k \in 1 .. f : bus[i + k] = IF k = f THEN Failed(g[k]) ELSE Sent(g[k])

\* page p is sent at bus call i + 1: once if its plan f has no fault, else cut
\* at call f[1] and then sent again in full
PageSentAt(i, p, f) ==
    /\ GroupCutAt(i, p, f[1])
    /\ GroupSentAt(i + f[1], p)

ShowEnded == lastOp.name = "show"

\* C1: when every page of a show() suffers at most one transport error, show()
\* returns normally and the bus saw, page after page in ascending order, each
\* undisturbed page's group once and each disturbed page's group up to the
\* failed call followed by the complete group once more; nothing else.
C1_SingleFaultsRecovered ==
    (ShowEnded /\ \A p \in Pages : faults.pages[p][2] = 0) =>
        /\ result = "ok"
        /\ Len(bus) = CallsBefore(faults.pages, 16)
        /\ \A p \in Pages : PageSentAt(CallsBefore(faults.pages, p), p, faults.pages[p])

\* a landscape show() in which every page was disturbed once, at its last chunk
C1_Witness ==
    /\ ShowEnded
    /\ rotate
    /\ result = "ok"
    /\ \A p \in Pages : faults.pages[p] = <<7, 0>>
    /\ Len(bus) = 16 * 14

\* the first page both of whose attempts fail, if there is one
DoomedPages == {p \in Pages : faults.pages[p][1] # 0 /\ faults.pages[p][2] # 0}
Doomed == CHOOSE p \in DoomedPages : \A q \in DoomedPages : p <= q

\* the bus calls that address page p
AddressCalls(p) == {i \in 1 .. Len(bus) : bus[i].bytes = <<128, 176 + p>>}

\* C2: when a call of page p fails and a call of its retry fails too, show()
\* raises the transport error: the failed call of the retry is the last call
\* on the bus, page p was addressed twice and no more, and no later page was
\* addressed; the pages before p were sent as usual.
C2_SecondFailureIsFatal ==
    (ShowEnded /\ DoomedPages # {}) =>
        LET p == Doomed
            f == faults.pages[p]
            i == CallsBefore(faults.pages, p)
            g == ClaimedGroup(ActiveBuffer, p)
        IN /\ result = "OSError"
           /\ Len(bus) = i + f[1] + f[2]
           /\ bus[Len(bus)] = Failed(g[f[2]])
           /\ GroupCutAt(i, p, f[1])
           /\ Cardinality(AddressCalls(p)) = 2
           /\ \A q \in Pages : q > p => AddressCalls(q) = {}
           /\ \A q \in Pages : q < p => PageSentAt(CallsBefore(faults.pages, q), q, faults.pages[q])

\* a show() that fails on page 3 after pages 0..2 were each retried
C2_Witness ==
    /\ ShowEnded
    /\ result = "OSError"
    /\ faults.pages[3] = <<7, 1>>
    /\ \A q \in 0 .. 2 : faults.pages[q] = <<7, 0>>
    /\ Len(bus) = 3 * 14 + 8

ConstructEnded == lastOp.name = "__init__"

\* i-th bus call of a construction is the i-th initialization command
ClaimedInit ==
    <<174, 220, 0, 129, 47, 32, 160, 192, 168, 127, 211, 96, 213, 81, 217, 34, 219, 53,
      164, 166, 175>>

\* C3 as the spec states it: any transport error during construction is fatal,
\* and no bus call is made after the one that failed.
C3_AnyInitErrorIsFatal ==
    (ConstructEnded /\ \E i \in 1 .. Len(bus) : ~bus[i].ok) =>
        /\ result = "OSError"
        /\ pc = "failed"
        /\ \A i \in 1 .. Len(bus) : ~bus[i].ok => i = Len(bus)

\* C3, amended: a transport error on one of the 21 initialization commands is
\* fatal at once, with no call after it; in the full-frame transfer that ends
\* the construction a failed page is sent again once, and the construction
\* fails only if a call of that retry fails too.
C3_InitCommandErrorIsFatal ==
    ConstructEnded =>
        /\ faults.cmd # 0 =>
              /\ result = "OSError"
              /\ pc = "failed"
              /\ Len(bus) = faults.cmd
              /\ \A i \in 1 .. Len(bus) :
                    bus[i] = IF i = faults.cmd THEN Failed(<<128, ClaimedInit[i]>>)
                             ELSE Sent(<<128, ClaimedInit[i]>>)
        /\ faults.cmd = 0 =>
              /\ \A i \in 1 .. 21 : bus[i] = Sent(<<128, ClaimedInit[i]>>)
              /\ (result = "OSError") <=> (DoomedPages # {})
              /\ (result = "ok") <=> (DoomedPages = {})
              /\ (pc = "failed") <=> (DoomedPages # {})
              /\ DoomedPages = {} =>
                    Len(bus) = 21 + CallsBefore(faults.pages, 16)
              /\ DoomedPages # {} =>
                    Len(bus) = 21 + CallsBefore(faults.pages, Doomed)
                               + faults.pages[Doomed][1] + faults.pages[Doomed][2]

\* a landscape construction whose last initialization command is refused
C3_Witness ==
    /\ ConstructEnded
    /\ rotate
    /\ faults.cmd = 21
    /\ result = "OSError"
    /\ bus[21] = Failed(<<128, 175>>)

\* a drawing operation of the driver's own
ShapeEnded == lastOp.name \in {"circle", "ellipse", "triangle"}

\* C4: circle, ellipse and triangle return normally for all arguments.
C4_DrawingNeverFails == ShapeEnded => result = "ok"

\* C5: a show() on a quiet bus makes, for page 0, 1, ..., 15 in this order, the
\* calls [0x80, 0xB0|page], [0x80, 0x00], [0x80, 0x10] and the chunked write of
\* bytes 64*page .. 64*page+63 of the active buffer (physical_buffer in
\* landscape, buffer in portrait), and no other call.
C5_QuietShowTrace ==
    (ShowEnded /\ ~HasFault(faults.pages)) =>
        /\ result = "ok"
        /\ Len(bus) = 16 * 7
        /\ \A p \in 0 .. 15 :
              LET g == ClaimedGroup(IF rotate THEN physical_buffer ELSE buffer, p)
              IN \A k \in 1 .. 7 : bus[7 * p + k] = Sent(g[k])

\* a quiet landscape show() of a buffer with pixel (0, 0) set: the logical
\* buffer has the bit in its first byte, the frame sent has it in page 15
C5_Witness ==
    /\ ShowEnded
    /\ rotate
    /\ ~HasFault(faults.pages)
    /\ BitSet(buffer[1], 0)
    /\ Len(bus) = 16 * 7
    /\ bus[7 * 15 + 4].bytes[2] = 128

\* C6: a construction on a quiet bus makes the 21 command writes [0x80, b] with
\* b as listed, then one full-frame transfer all of whose data bytes are 0,
\* and nothing else.
C6_ConstructionTrace ==
    (ConstructEnded /\ faults.cmd = 0 /\ ~HasFault(faults.pages)) =>
        /\ result = "ok"
        /\ Len(bus) = 21 + 16 * 7
        /\ \A i \in 1 .. 21 : bus[i] = Sent(<<128, ClaimedInit[i]>>)
        /\ \A p \in 0 .. 15 :
              /\ bus[21 + 7 * p + 1] = Sent(<<128, 176 + p>>)
              /\ bus[21 + 7 * p + 2] = Sent(<<128, 0>>)
              /\ bus[21 + 7 * p + 3] = Sent(<<128, 16>>)
              /\ \A k \in 4 .. 7 :
                    bus[21 + 7 * p + k] = Sent(<<64, 0, 0, 0, 0, 0, 0, 0, 0, 0, 0, 0, 0, 0, 0, 0, 0>>)

\* a quiet portrait construction
C6_Witness ==
    /\ ConstructEnded
    /\ ~rotate
    /\ faults = Quiet
    /\ pc = "ready"
    /\ Len(bus) = 133

\* logical pixel (x, y): bit y%8 of byte (y/8)*128 + x of the logical buffer
LogicalPixel(x, y) == BitSet(buffer[(y \div 8) * 128 + x + 1], y % 8)

\* physical pixel (dx, dy): bit dy%8 of byte (dy/8)*64 + dx of the physical buffer
PhysicalPixel(dx, dy) == BitSet(physical_buffer[(dy \div 8) * 64 + dx + 1], dy % 8)

\* the number of bits set in a buffer
BitsSet(buf) ==
    Cardinality({ib \in {i \in 1 .. Len(buf) : buf[i] # 0} \X (0 .. 7) : BitSet(buf[ib[1]], ib[2])})

\* C7: after a landscape show() has rotated the buffer, physical pixel
\* (dst_x, dst_y) is set if and only if logical pixel (127 - dst_y, dst_x) is
\* set, for every logical x in 0..127 and y in 0..63, and the two buffers have
\* the same number of bits set.
C7_RotationPerBit ==
    (ShowEnded /\ rotate) =>
        /\ \A x \in 0 .. 127, y \in 0 .. 63 : PhysicalPixel(y, 127 - x) <=> LogicalPixel(x, y)
        /\ BitsSet(physical_buffer) = BitsSet(buffer)

\* the three pixels the spec names, lit and rotated: (0,0) to (0,127),
\* (127,0) to (0,0) and (0,63) to (63,127), and nothing else
C7_Witness ==
    /\ ShowEnded
    /\ rotate
    /\ LogicalPixel(0, 0) /\ PhysicalPixel(0, 127)
    /\ LogicalPixel(127, 0) /\ PhysicalPixel(0, 0)
    /\ LogicalPixel(0, 63) /\ PhysicalPixel(63, 127)
    /\ BitsSet(physical_buffer) = 3

\* C8: every pixel circle(x0, y0, r, c, f=False) plots lies in a span that
\* circle(x0, y0, r, c, f=True) draws, for r >= 0.
C8_OutlineInsideFill ==
    (lastOp.name = "circle" /\ lastOp.args[5] = 0 /\ lastOp.args[3] >= 0) =>
        LET a == lastOp.args
        IN Covered(calls) \subseteq Covered(circle(a[1], a[2], a[3], a[4], TRUE).calls)

\* the outline of radius 8 around (0, 0): its rightmost pixel, its leftmost
\* one and one on the diagonal
C8_Witness ==
    /\ lastOp.name = "circle"
    /\ lastOp.args = <<0, 0, 8, 1, 0>>
    /\ <<8, 0>> \in Covered(calls)
    /\ <<-8, 0>> \in Covered(calls)
    /\ \E d \in 1 .. 8 : <<d, d>> \in Covered(calls)

\* pixel (x, y) of the logical buffer of the driver as it is oriented
BufferPixel(x, y) == BitSet(buffer[(y \div 8) * width(rotate) + x + 1], y % 8)

\* C9: on a cleared buffer, triangle(0,0, 4,0, 0,4, 1, True) sets every pixel
\* (x, y) with x >= 0, y >= 0, x + y <= 4, and leaves (4, 4) clear.
C9_TriangleFillScenario ==
    (lastOp.name = "triangle" /\ lastOp.args = <<0, 0, 4, 0, 0, 4, 1, 1>>) =>
        /\ \A x \in 0 .. 4, y \in 0 .. 4 : x + y <= 4 => BufferPixel(x, y)
        /\ ~BufferPixel(4, 4)

\* C10: the physical buffer a landscape show() leaves, whatever came before
\* and however the show() ended, is the rotation of the logical buffer into
\* 1024 zero bytes, and it is 1024 bytes long.
C10_PhysicalFromLogicalOnly ==
    (ShowEnded /\ rotate) =>
        /\ Len(physical_buffer) = 1024
        /\ physical_buffer = RotatePages(bytearray(1024), buffer, 0)

\* a landscape show() that found bits of an earlier frame in the physical
\* buffer which the logical buffer no longer has
C10_Witness ==
    /\ ShowEnded
    /\ rotate
    /\ stale
    /\ Len(physical_buffer) = 1024

WriteDataEnded == lastOp.name = "write_data"

\* the payload bytes of bus calls 1 .. i, in the order sent
RECURSIVE PayloadsUpTo(_)
PayloadsUpTo(i) == IF i = 0 THEN <<>> ELSE PayloadsUpTo(i - 1) \o Tail(bus[i].bytes)

\* C11: write_data on n bytes makes exactly ceil(n/16) bus calls, each the
\* byte 0x40 followed by at most 16 payload bytes, all but the last by exactly
\* 16, and the payloads in the order sent make up the data: 4 calls of 16 for
\* a 64-byte page, none for an empty payload.
C11_Chunking ==
    (WriteDataEnded /\ result = "ok") =>
        LET data == lastOp.args[1]
            n == Len(data)
            c == Len(bus)
        IN /\ 16 * c >= n
           /\ (16 * (c - 1) < n \/ (c = 0 /\ n = 0))
           /\ \A i \in 1 .. c :
                 /\ bus[i].ok
                 /\ bus[i].bytes[1] = 64
                 /\ Len(bus[i].bytes) - 1 \in 1 .. 16
                 /\ i < c => Len(bus[i].bytes) - 1 = 16
           /\ PayloadsUpTo(c) = data
           /\ n = 64 => (c = 4 /\ \A i \in 1 .. 4 : Len(bus[i].bytes) = 17)
           /\ n = 0 => c = 0

\* a write of 40 bytes: two calls of 16 payload bytes and one of 8
C11_Witness ==
    /\ WriteDataEnded
    /\ result = "ok"
    /\ Len(lastOp.args[1]) = 40
    /\ Len(bus) = 3
    /\ Len(bus[3].bytes) = 9

====
